---- MODULE Spec2Model ----
(***************************************************************************)
(* Model of the MRITC demo pipeline (src/mritc_demo.pipeline.py):          *)
(* _import, _process (router, thumbnails, mosaic) and _package             *)
(* (telemetry loader, correlator, output mapper) of MRITCDemoPipeline.     *)
(* File names, identifiers and timestamps are real strings, so that the    *)
(* positional split/join of the naming scheme is computed, not assumed.    *)
(***************************************************************************)
EXTENDS Integers, Sequences, FiniteSets, TLC

VARIABLES
    fs,           \* the files under the data directory: relative path -> content
    dirs,         \* the sub-directories of the data directory
    pc,           \* "new" before _import, "ready" after it
    config,       \* the pipeline configuration and the collection directory name
    has_logging,  \* whether the pipeline object has the attribute `logging`
    dry_run,      \* the dry_run flag the pipeline was constructed with
    proc,         \* outcome of the last _process call
    pkg           \* outcome of the last _package call

vars == <<fs, dirs, pc, config, has_logging, dry_run, proc, pkg>>

(***************************************************************************)
(* Bounds of the model.                                                    *)
(***************************************************************************)
MaxFiles == 2      \* files in the source tree given to _import
MaxIdFiles == 1    \* the same, where the identifiers of the configuration vary
MaxDryFiles == 1   \* files an earlier import left in the data directory of a dry run
MaxNameFiles == 1  \* files in the source tree where the file names vary

(***************************************************************************)
(* String primitives (str.split, str.lower, int(), format).                *)
(***************************************************************************)
Char(s, i) == SubSeq(s, i, i)

Digits == "0123456789"

\* the least member of a non-empty set of positions
Least(S) == CHOOSE i \in S : \A j \in S : i <= j

\* index of the first occurrence of the substring sub at or after i, 0 if none
FindFrom(s, sub, i) ==
    LET hits == {j \in i..(Len(s) - Len(sub) + 1) : SubSeq(s, j, j + Len(sub) - 1) = sub}
    IN IF hits = {} THEN 0 ELSE Least(hits)

RECURSIVE SplitAt(_, _, _)
\* the pieces of s from position start on, cut at the positions `cuts` of the separator
SplitAt(s, cuts, start) ==
    LET rest == {j \in cuts : j >= start}
    IN IF rest = {} THEN <<SubSeq(s, start, Len(s))>>
       ELSE <<SubSeq(s, start, Least(rest) - 1)>> \o SplitAt(s, cuts, Least(rest) + 1)

\* str.split(sep) for a one-character separator
Split(s, sep) == SplitAt(s, {j \in 1..Len(s) : Char(s, j) = sep}, 1)

RECURSIVE JoinFrom(_, _, _)
JoinFrom(parts, sep, i) ==
    IF i > Len(parts) THEN ""
    ELSE IF i = Len(parts) THEN parts[i]
    ELSE parts[i] \o sep \o JoinFrom(parts, sep, i + 1)

Join(parts, sep) == JoinFrom(parts, sep, 1)

\* Python's `sub in s`
Contains(s, sub) == FindFrom(s, sub, 1) # 0

\* index of the last occurrence of the character c at or before i, 0 if none
RFind(s, c, i) ==
    LET hits == {j \in 1..i : Char(s, j) = c}
    IN IF hits = {} THEN 0 ELSE CHOOSE j \in hits : \A k \in hits : k <= j

LowerMap ==
    [c \in {"A", "B", "C", "D", "E", "F", "G", "H", "I", "J", "K", "L", "M",
            "N", "O", "P", "Q", "R", "S", "T", "U", "V", "W", "X", "Y", "Z"} |->
        CASE c = "A" -> "a" [] c = "B" -> "b" [] c = "C" -> "c" [] c = "D" -> "d"
          [] c = "E" -> "e" [] c = "F" -> "f" [] c = "G" -> "g" [] c = "H" -> "h"
          [] c = "I" -> "i" [] c = "J" -> "j" [] c = "K" -> "k" [] c = "L" -> "l"
          [] c = "M" -> "m" [] c = "N" -> "n" [] c = "O" -> "o" [] c = "P" -> "p"
          [] c = "Q" -> "q" [] c = "R" -> "r" [] c = "S" -> "s" [] c = "T" -> "t"
          [] c = "U" -> "u" [] c = "V" -> "v" [] c = "W" -> "w" [] c = "X" -> "x"
          [] c = "Y" -> "y" [] c = "Z" -> "z"]

RECURSIVE LowerFrom(_, _)
LowerFrom(s, i) ==
    IF i > Len(s) THEN ""
    ELSE (IF Char(s, i) \in DOMAIN LowerMap THEN LowerMap[Char(s, i)] ELSE Char(s, i))
         \o LowerFrom(s, i + 1)

\* str.lower()
Lower(s) == LowerFrom(s, 1)

DigitVal(c) ==
    CASE c = "0" -> 0 [] c = "1" -> 1 [] c = "2" -> 2 [] c = "3" -> 3 [] c = "4" -> 4
      [] c = "5" -> 5 [] c = "6" -> 6 [] c = "7" -> 7 [] c = "8" -> 8 [] c = "9" -> 9

IsDigit(c) == c \in {"0", "1", "2", "3", "4", "5", "6", "7", "8", "9"}

AllDigitsFrom(s, i) == \A j \in i..Len(s) : IsDigit(Char(s, j))

\* int(s) succeeds (no ValueError) for a non-empty string of decimal digits
IsInt(s) == Len(s) > 0 /\ AllDigitsFrom(s, 1)

RECURSIVE IntFrom(_, _, _)
IntFrom(s, i, acc) ==
    IF i > Len(s) THEN acc
    ELSE IntFrom(s, i + 1, 10 * acc + DigitVal(Char(s, i)))

\* int(s)
ToInt(s) == IntFrom(s, 1, 0)

RECURSIVE Str(_)
\* str(n) for n >= 0
Str(n) ==
    IF n < 10 THEN Char(Digits, n + 1)
    ELSE Str(n \div 10) \o Char(Digits, (n % 10) + 1)

RECURSIVE ZeroPad(_, _)
\* format(n, "0<w>d"): zero-padded to at least w digits
ZeroPad(s, w) == IF Len(s) >= w THEN s ELSE ZeroPad("0" \o s, w)

Pad(n, w) == ZeroPad(Str(n), w)

(***************************************************************************)
(* pathlib: name, suffix, stem of a path string.                           *)
(***************************************************************************)
PathName(p) == SubSeq(p, RFind(p, "/", Len(p)) + 1, Len(p))

\* suffix and stem of a file name (the last component of a path)
NameSuffix(name) ==
    LET i == RFind(name, ".", Len(name))
    IN IF 1 < i /\ i < Len(name) THEN SubSeq(name, i, Len(name)) ELSE ""

NameStem(name) ==
    LET i == RFind(name, ".", Len(name))
    IN IF 1 < i /\ i < Len(name) THEN SubSeq(name, 1, i - 1) ELSE name

PathSuffix(p) == NameSuffix(PathName(p))

PathStem(p) == NameStem(PathName(p))

(***************************************************************************)
(* datetime: strptime / strftime / pandas.to_datetime with a format.       *)
(* A format is written as a layout string in which the letters Y m d H M S *)
(* stand for the digits of the field and every other character is literal. *)
(***************************************************************************)
FieldLetters == {"Y", "m", "d", "H", "M", "S"}

MatchFrom(s, layout, i) ==
    \A j \in i..Len(layout) :
        IF Char(layout, j) \in FieldLetters
        THEN IsDigit(Char(s, j))
        ELSE Char(s, j) = Char(layout, j)

MatchLayout(s, layout) == Len(s) = Len(layout) /\ MatchFrom(s, layout, 1)

FieldOf(s, layout, letter) ==
    ToInt(SubSeq(s, FindFrom(layout, letter, 1), RFind(layout, letter, Len(layout))))

FieldsOf(s, layout) ==
    [Y |-> FieldOf(s, layout, "Y"), m |-> FieldOf(s, layout, "m"),
     d |-> FieldOf(s, layout, "d"), H |-> FieldOf(s, layout, "H"),
     M |-> FieldOf(s, layout, "M"), S |-> FieldOf(s, layout, "S")]

IsLeap(y) == (y % 4 = 0 /\ y % 100 # 0) \/ y % 400 = 0

DaysInMonth(y, m) ==
    IF m = 2 THEN (IF IsLeap(y) THEN 29 ELSE 28)
    ELSE IF m \in {4, 6, 9, 11} THEN 30 ELSE 31

\* the ranges datetime accepts (MINYEAR is 1)
ValidFields(f) ==
    /\ f.Y >= 1
    /\ f.m \in 1..12
    /\ f.d >= 1 /\ f.d <= DaysInMonth(f.Y, f.m)
    /\ f.H <= 23 /\ f.M <= 59 /\ f.S <= 59

\* strptime(s, layout) does not raise ValueError
CanParse(s, layout) == MatchLayout(s, layout) /\ ValidFields(FieldsOf(s, layout))

ExifLayout == "YYYY:mm:dd HH:MM:SS"
CompactLayout == "YYYYmmddTHHMMSSZ"
IsoLayout == "YYYY-mm-ddTHH:MM:SS"
CsvLayout == "YYYY-mm-dd HH:MM:SS"

\* the part of s before a trailing ".<1 to 6 digits><tail>", or "" if s has no such ending
BeforeFraction(s, tail) ==
    LET i == RFind(s, ".", Len(s))
        frac == SubSeq(s, i + 1, Len(s) - Len(tail))
    IN IF /\ i > 0
          /\ Len(s) - Len(tail) >= i + 1
          /\ SubSeq(s, Len(s) - Len(tail) + 1, Len(s)) = tail
          /\ Len(frac) <= 6 /\ AllDigitsFrom(frac, 1)
       THEN SubSeq(s, 1, i - 1) ELSE ""

\* strptime with a layout followed by ".%f" and a literal tail
CanParseFrac(s, layout, tail) == CanParse(BeforeFraction(s, tail), layout)

\* the datetime with its microseconds dropped (strftime without %f, dt.floor("s"))
ParseFracFloor(s, layout, tail) == FieldsOf(BeforeFraction(s, tail), layout)

\* strftime("%Y%m%dT%H%M%SZ")
StrfCompact(f) ==
    Pad(f.Y, 4) \o Pad(f.m, 2) \o Pad(f.d, 2) \o "T"
        \o Pad(f.H, 2) \o Pad(f.M, 2) \o Pad(f.S, 2) \o "Z"

\* Timestamp.isoformat() of a whole-second timestamp
IsoFormat(f) ==
    Pad(f.Y, 4) \o "-" \o Pad(f.m, 2) \o "-" \o Pad(f.d, 2) \o "T"
        \o Pad(f.H, 2) \o ":" \o Pad(f.M, 2) \o ":" \o Pad(f.S, 2)

RECURSIVE DaysBeforeMonth(_, _)
DaysBeforeMonth(y, m) == IF m <= 1 THEN 0 ELSE DaysInMonth(y, m - 1) + DaysBeforeMonth(y, m - 1)

\* days from 1970-01-01 to the first day of year y (y >= 1970)
DaysBeforeYear(y) ==
    LET n == y - 1
    IN (365 * n + n \div 4 - n \div 100 + n \div 400) - 719162

\* seconds since the epoch: the scale on which timestamps are subtracted
EpochSeconds(f) ==
    (DaysBeforeYear(f.Y) + DaysBeforeMonth(f.Y, f.m) + (f.d - 1)) * 86400
        + f.H * 3600 + f.M * 60 + f.S

Abs(x) == IF x < 0 THEN -x ELSE x

(***************************************************************************)
(* The deployment: configuration and paths.                                *)
(***************************************************************************)
\* get_pipeline_config_schema: the configured identifiers
StdConfig == [platform_id |-> "MRITC", voyage_id |-> "IN2018_V06", deployment |-> "IN2018_V06_001"]

PlatformIds == {"MRITC", "MR_ITC"}
VoyageIds == {"IN2018_V06", "IN2018_V06_X", "IN2018"}
DeploymentNames == {"IN2018_V06_001", "IN2018_V06_001_B", "IN2018_V06"}

Configs == [platform_id : PlatformIds, voyage_id : VoyageIds, deployment : DeploymentNames]

\* the data directory of the collection: <root>/collections/<deployment>/<pipeline>
DataDir(cfg) == "/proj/collections/" \o cfg.deployment \o "/mritc"

FullPath(cfg, rel) == DataDir(cfg) \o "/" \o rel

\* seq[-k] of Python; the caller checks Len(seq) >= k
FromEnd(seq, k) == seq[Len(seq) - k + 1]

(***************************************************************************)
(* File contents.  `info` is what the metadata reader sees in the file:    *)
(* for a .jpg the EXIF DateTime string, or one of the markers below; for   *)
(* a .mp4 the creation_time printed by ffprobe ("" when blank); `rows` is  *)
(* the table of a telemetry log; `intact` is whether the image data after  *)
(* the header can be decoded.                                              *)
(***************************************************************************)
Unreadable == "<unreadable>"   \* Image.open raises OSError
NoExif == "<noexif>"           \* the image has no EXIF block
NoTag == "<notag>"             \* the EXIF block has no DateTime tag
ProbeError == "<error>"        \* running ffprobe raises

Row(t, cam) == [FinalTime |-> t, Camera |-> cam]

TableA ==
    << Row("2018-11-25 10:15:30.200", "A1"), Row("2018-11-25 10:15:30.900", "A2"),
       Row("2018-11-25 10:16:00.000", "A3"), Row("2018-11-25 10:16:05.000", "A4") >>
TableB ==
    << Row("2018-11-25 10:16:04.500", "B1"), Row("2018-11-25 10:16:00.250", "B2") >>
TableBad == << Row("25/11/2018 10:15", "X1") >>

Tables == {<<>>, TableBad, TableA, TableB}

StillNames == {"IMG_0001.jpg", "DSC_0001.JPG", "photo.jpg", "overview_0002.jpg"}
StillInfos == {Unreadable, NoExif, NoTag, "2018-11-25 10:15", "2018:11:25 10:15:30", "2018:11:25 10:16:02"}
VideoNames == {"dive_1.mp4", "dive_2.MP4"}
VideoInfos == {"", ProbeError, "2018-11-25T10:16:02.500000Z", "2018-11-25T10:15:30.000000Z"}
LogNames == {"nav.csv", "usbl.CSV"}
OtherNames == {"notes.txt"}

File(name, info, rows) == [name |-> name, info |-> info, rows |-> rows, intact |-> TRUE]

\* a still whose header and EXIF block are readable but whose image data is cut off
Truncated(file) == [file EXCEPT !.intact = FALSE]
TruncatedStills == {Truncated(File("IMG_0001.jpg", "2018:11:25 10:15:30", <<>>))}

\* stills whose names carry index tokens of different lengths
NamingNames == {"IMG_0001.JPG", "IMG_7.jpg", "DSC_12345.jpg", "st_a_042.jpg"}
NamingInfos == {"2018:11:25 10:15:30", "2019:01:02 03:04:05"}
NamingFiles == {File(n, i, <<>>) : n \in NamingNames, i \in NamingInfos}

\* the files a source directory may hold
SourceFiles ==
    {File(n, i, <<>>) : n \in StillNames, i \in StillInfos}
        \cup {File(n, i, <<>>) : n \in VideoNames, i \in VideoInfos}
        \cup {File(n, "", t) : n \in LogNames, t \in Tables}
        \cup {File(n, "", <<>>) : n \in OtherNames}

Body(info, rows) == [info |-> info, rows |-> rows, intact |-> TRUE]

\* the content of a file without its name
BodyOf(file) == [info |-> file.info, rows |-> file.rows, intact |-> file.intact]

\* a file system with the file at path p removed
Without(f, p) == [q \in DOMAIN f \ {p} |-> f[q]]

\* a file system with the file at path p (over)written
WithFile(f, p, body) == [q \in DOMAIN f \cup {p} |-> IF q = p THEN body ELSE f[q]]

\* Path.rename: the target is silently replaced
Rename(f, src, dst) == WithFile(Without(f, src), dst, f[src])

RECURSIVE Perms(_)
\* every order in which a directory listing can yield the set S
Perms(S) ==
    IF S = {} THEN {<<>>}
    ELSE UNION {{<<x>> \o p : p \in Perms(S \ {x})} : x \in S}

(***************************************************************************)
(* Naming: get_image_output_file_name and get_mp4_timestamp.               *)
(* A call returns [exc, value]: exc is "none" or the exception that        *)
(* leaves the call.                                                        *)
(***************************************************************************)
Ok(v) == [exc |-> "none", value |-> v]
Raise(e) == [exc |-> e, value |-> ""]

DefaultFilename == "default_filename.JPG"
SentinelStamp == "00000000T000000Z"

\* self.logging.exception(...): the attribute lookup fails on an object without `logging`
LogException(hl, v) == IF hl THEN Ok(v) ELSE Raise("AttributeError")

\* FormatIndex without the width of the format spec ({index} for {index:04d})
FormatIndexPlain(index) == Str(index)

\* f"{index:04d}"
FormatIndex(index) == Pad(index, 4)

\* GetImageOutputFileName with the index written before the timestamp
GetImageOutputFileNameIndexFirst(cfg, hl, path, info) ==
    LET index_str == Split(FromEnd(Split(path, "_"), 1), ".")[1]
        voyage_parts == Split(cfg.voyage_id, "_")
        deployment_parts == Split(FromEnd(Split(path, "/"), 3), "_")
    IN IF info = Unreadable THEN LogException(hl, DefaultFilename)
       ELSE IF ~IsInt(index_str) THEN Raise("ValueError")
       ELSE IF info = NoExif THEN LogException(hl, DefaultFilename)
       ELSE IF info = NoTag THEN LogException(hl, DefaultFilename)
       ELSE IF ~CanParse(info, ExifLayout) THEN Raise("ValueError")
       ELSE IF Len(deployment_parts) < 3 \/ Len(voyage_parts) < 2 THEN Raise("IndexError")
       ELSE Ok(cfg.platform_id \o "_SCP_"
                \o voyage_parts[1] \o "_" \o voyage_parts[2] \o "_" \o deployment_parts[3] \o "_"
                \o FormatIndex(ToInt(index_str)) \o "_"
                \o StrfCompact(FieldsOf(info, ExifLayout)) \o ".JPG")

GetImageOutputFileName(cfg, hl, path, info) ==
    LET index_str == Split(FromEnd(Split(path, "_"), 1), ".")[1]
        voyage_parts == Split(cfg.voyage_id, "_")
        deployment_parts == Split(FromEnd(Split(path, "/"), 3), "_")
    IN IF info = Unreadable THEN LogException(hl, DefaultFilename)
       ELSE IF ~IsInt(index_str) THEN Raise("ValueError")
       ELSE IF info = NoExif THEN LogException(hl, DefaultFilename)
       ELSE IF info = NoTag THEN LogException(hl, DefaultFilename)
       ELSE IF ~CanParse(info, ExifLayout) THEN Raise("ValueError")
       ELSE IF Len(deployment_parts) < 3 \/ Len(voyage_parts) < 2 THEN Raise("IndexError")
       ELSE Ok(cfg.platform_id \o "_SCP_"
                \o voyage_parts[1] \o "_" \o voyage_parts[2] \o "_" \o deployment_parts[3] \o "_"
                \o StrfCompact(FieldsOf(info, ExifLayout)) \o "_"
                \o FormatIndex(ToInt(index_str)) \o ".JPG")

GetMp4Timestamp(hl, info) ==
    IF info # ProbeError /\ info # "" /\ CanParseFrac(info, IsoLayout, "Z")
    THEN Ok(StrfCompact(ParseFracFloor(info, IsoLayout, "Z")))
    ELSE LogException(hl, SentinelStamp)

(***************************************************************************)
(* _process: router loop, thumbnail loop, mosaic.                          *)
(* The state threaded through the loops is                                 *)
(*   [fs, jpg_list, thumb_list, renamed, exc];                             *)
(* renamed collects the "Renamed <src> -> <dst>" lines the router logs.    *)
(***************************************************************************)
ProcessDirs == {"images", "video", "data", "thumbnails"}

\* data_dir.glob("*") restricted to files: the entries directly under the data directory
RootFiles(f) == {p \in DOMAIN f : ~Contains(p, "/")}

Target(e, kind, dst) == [exc |-> e, kind |-> kind, dst |-> dst, thumb |-> ""]

\* the path of the thumbnail of a routed still
ThumbPath(jpg_name) == "thumbnails/" \o NameStem(jpg_name) \o "_THUMB" \o NameSuffix(jpg_name)

ImageTarget(img) ==
    [exc |-> img.exc, kind |-> ".jpg", dst |-> "images/" \o img.value, thumb |-> ThumbPath(img.value)]

VideoTarget(stamp, prefix) == Target(stamp.exc, ".mp4", "video/" \o prefix \o "_" \o stamp.value \o ".mp4")

\* the body of the router loop up to the rename: what one directory entry is renamed to
\* (kind "" when the entry is left alone), or the exception that leaves the loop
RouteTarget(cfg, hl, path, info) ==
    LET deployment_parts == Split(FromEnd(Split(path, "/"), 3), "_")
        file_ext == Lower(PathSuffix(path))
        prefix == cfg.platform_id \o "_" \o cfg.voyage_id \o "_" \o deployment_parts[3]
    IN IF Len(deployment_parts) < 3 THEN Target("IndexError", "", "")
       ELSE IF file_ext = ".jpg" THEN ImageTarget(GetImageOutputFileName(cfg, hl, path, info))
       ELSE IF file_ext = ".mp4" THEN VideoTarget(GetMp4Timestamp(hl, info), prefix)
       ELSE IF file_ext = ".csv" THEN Target("none", ".csv", "data/" \o prefix \o ".CSV")
       ELSE Target("none", "", "")

\* the targets of the entries of the data directory (each computed once per call,
\* whatever the order of the listing)
RouteTargets(cfg, hl, f) ==
    {[src |-> rel, target |-> RouteTarget(cfg, hl, FullPath(cfg, rel), f[rel].info)] : rel \in RootFiles(f)}

TargetOf(targets, rel) == (CHOOSE t \in targets : t.src = rel).target

\* RouteFile parsing the FinalTime column of a log while routing it
RouteFileReadingLog(st, rel, target) ==
    IF target.exc # "none" THEN [st EXCEPT !.exc = target.exc]
    ELSE IF target.kind = "" THEN st
    ELSE IF target.kind = ".csv" /\ ~(\A i \in 1..Len(st.fs[rel].rows) :
                                        CanParseFrac(st.fs[rel].rows[i].FinalTime, CsvLayout, ""))
    THEN [st EXCEPT !.exc = "ValueError"]
    ELSE [st EXCEPT !.fs = Rename(st.fs, rel, target.dst),
                    !.renamed = st.renamed \cup {[src |-> rel, dst |-> target.dst]},
                    !.jpg_list = IF target.kind = ".jpg" THEN Append(st.jpg_list, target.dst)
                                 ELSE st.jpg_list]

\* one iteration of the router loop: file.rename, the log line, jpg_list.append
RouteFile(st, rel, target) ==
    IF target.exc # "none" THEN [st EXCEPT !.exc = target.exc]
    ELSE IF target.kind = "" THEN st
    ELSE [st EXCEPT !.fs = Rename(st.fs, rel, target.dst),
                    !.renamed = st.renamed \cup {[src |-> rel, dst |-> target.dst]},
                    !.jpg_list = IF target.kind = ".jpg" THEN Append(st.jpg_list, target.dst)
                                 ELSE st.jpg_list]

RECURSIVE RouteLoop(_, _, _, _)
RouteLoop(st, targets, listing, i) ==
    IF i > Len(listing) \/ st.exc # "none" THEN st
    ELSE RouteLoop(RouteFile(st, listing[i], TargetOf(targets, listing[i])), targets, listing, i + 1)

ThumbBody == Body(NoExif, <<>>)

\* image.resize_fit decodes the whole image
CanResize(body) == body.info # Unreadable /\ body.intact

\* one iteration of the thumbnail loop; image.resize_fit fails on a file it cannot decode
ThumbFile(hl, st, targets, jpg) ==
    LET output_path == (CHOOSE t \in targets : t.target.kind = ".jpg" /\ t.target.dst = jpg).target.thumb
    IN IF ~CanResize(st.fs[jpg])
       THEN [st EXCEPT !.exc = LogException(hl, "").exc]
       ELSE [st EXCEPT !.fs = WithFile(st.fs, output_path, ThumbBody),
                       !.thumb_list = Append(st.thumb_list, output_path)]

RECURSIVE ThumbLoop(_, _, _, _)
ThumbLoop(hl, st, targets, i) ==
    IF i > Len(st.jpg_list) \/ st.exc # "none" THEN st
    ELSE ThumbLoop(hl, ThumbFile(hl, st, targets, st.jpg_list[i]), targets, i + 1)

\* image.create_grid_image(thumb_list, data_dir / "overview.jpg")
Mosaic(st) ==
    IF st.exc = "none" /\ st.thumb_list # <<>>
    THEN [st EXCEPT !.fs = WithFile(st.fs, "overview.jpg", ThumbBody)]
    ELSE st

\* _process on the file system f whose directory listing comes in the order `listing`
RunProcess(hl, f, targets, listing) ==
    LET start == [fs |-> f, jpg_list |-> <<>>, thumb_list |-> <<>>, renamed |-> {}, exc |-> "none"]
    IN Mosaic(ThumbLoop(hl, RouteLoop(start, targets, listing, 1), targets, 1))

(***************************************************************************)
(* _package: telemetry loader, correlator, output mapper.                  *)
(***************************************************************************)
\* (data_dir / "data").glob("*.CSV"): the routed telemetry logs
TelemetryLogs(f) ==
    {p \in DOMAIN f : /\ SubSeq(p, 1, 5) = "data/"
                      /\ ~Contains(SubSeq(p, 6, Len(p)), "/")
                      /\ NameSuffix(SubSeq(p, 6, Len(p))) = ".CSV"}

\* pd.to_datetime(FinalTime, format="%Y-%m-%d %H:%M:%S.%f") raises on a row it cannot parse
CanNormalize(rows) == \A i \in 1..Len(rows) : CanParseFrac(rows[i].FinalTime, CsvLayout, "")

RECURSIVE FinalTimeFrom(_, _)
FinalTimeFrom(rows, i) ==
    IF i > Len(rows) THEN <<>>
    ELSE <<ParseFracFloor(rows[i].FinalTime, CsvLayout, "")>> \o FinalTimeFrom(rows, i + 1)

\* the FinalTime column after .dt.floor("s")
FinalTime(rows) == FinalTimeFrom(rows, 1)

\* ExactMatch taking the last equal row (.iloc[-1]) instead of the first
ExactMatchLast(times, target) ==
    LET hits == {i \in 1..Len(times) : times[i] = target}
    IN IF hits = {} THEN 0 ELSE CHOOSE i \in hits : \A j \in hits : i >= j

\* sensor_data_df.loc[FinalTime == target].iloc[0]: index of the first equal row, 0 if none
ExactMatch(times, target) ==
    LET hits == {i \in 1..Len(times) : times[i] = target}
    IN IF hits = {} THEN 0 ELSE CHOOSE i \in hits : \A j \in hits : i <= j

TimeDiff(times, target, i) == Abs(EpochSeconds(times[i]) - EpochSeconds(target))

\* abs(FinalTime - target).idxmin(): index of the first row at minimal distance
NearestMatch(times, target) ==
    CHOOSE i \in 1..Len(times) :
        /\ \A j \in 1..Len(times) : TimeDiff(times, target, i) <= TimeDiff(times, target, j)
        /\ \A j \in 1..(i - 1) : TimeDiff(times, target, j) > TimeDiff(times, target, i)

\* first_row.map(isoformat).to_dict(): the matched row with its Timestamp fields as ISO strings
Ancillary(rows, times, i) == [FinalTime |-> IsoFormat(times[i]), Camera |-> rows[i].Camera]

NoMetadata(dst) == [dst |-> dst, row |-> 0, stamp |-> "", ancillary |-> <<>>]

WithMetadata(dst, rows, times, row, iso_timestamp) ==
    [dst |-> dst, row |-> row, stamp |-> iso_timestamp, ancillary |-> <<Ancillary(rows, times, row)>>]

Step(e, keep, entry) == [exc |-> e, keep |-> keep, entry |-> entry]

\* the matching of one media file whose name carries iso_timestamp
Correlate(rows, times, suffix, iso_timestamp, dst) ==
    IF ~CanParse(iso_timestamp, CompactLayout) THEN Step("ValueError", FALSE, NoMetadata(dst))
    ELSE IF suffix = ".jpg"
    THEN IF ExactMatch(times, FieldsOf(iso_timestamp, CompactLayout)) = 0
         THEN Step("none", FALSE, NoMetadata(dst))
         ELSE Step("none", TRUE,
                   WithMetadata(dst, rows, times,
                                ExactMatch(times, FieldsOf(iso_timestamp, CompactLayout)), iso_timestamp))
    ELSE IF Len(times) = 0 THEN Step("ValueError", FALSE, NoMetadata(dst))
    ELSE Step("none", TRUE,
              WithMetadata(dst, rows, times,
                           NearestMatch(times, FieldsOf(iso_timestamp, CompactLayout)), iso_timestamp))

\* index_map: where the timestamp sits among the "_"-separated parts of the stem
\* (5 and 4 counted from 0)
StampPosition(suffix) == IF suffix = ".jpg" THEN 6 ELSE 5

\* one iteration of the packaging loop: the exception that leaves it, or whether a record
\* is stored in the mapping, and the record
PackageFile(deployment_id, rows, times, rel) ==
    LET output_file_path == deployment_id \o "/" \o rel
        name == PathName(rel)
        suffix == Lower(NameSuffix(name))
        parts == Split(NameStem(name), "_")
        pos == StampPosition(suffix)
    IN IF /\ suffix \in {".jpg", ".mp4"}
          /\ ~Contains(name, "_THUMB")
          /\ ~Contains(name, "overview")
       THEN IF Len(parts) < pos THEN Step("IndexError", FALSE, NoMetadata(output_file_path))
            ELSE Correlate(rows, times, suffix, parts[pos], output_file_path)
       ELSE Step("none", TRUE, NoMetadata(output_file_path))

NotRun == [status |-> "notrun", exc |-> "none", mapping |-> <<>>]
Raised(e) == [status |-> "raised", exc |-> e, mapping |-> <<>>]
Returned(m) == [status |-> "returned", exc |-> "none", mapping |-> m]

\* the result of the packaging loop from the results of its iterations (the order of
\* rglob decides which of several failing files raises)
PackageResult(steps) ==
    LET failing == {x \in steps : x.step.exc # "none"}
        kept == {x \in steps : x.step.keep}
    IN IF failing # {} THEN {Raised(x.step.exc) : x \in failing}
       ELSE {Returned([p \in {x.path : x \in kept} |-> (CHOOSE x \in kept : x.path = p).step.entry])}

\* str(data_dir).split("/")[-2]: the name of the collection directory
DeploymentId(cfg) == FromEnd(Split(DataDir(cfg), "/"), 2)

PackageLoop(cfg, f, rows, times) ==
    UNION {PackageResult(steps) :
             steps \in {{[path |-> p, step |-> PackageFile(dep, rows, times, p)] : p \in DOMAIN f}
                         : dep \in {DeploymentId(cfg)}}}

\* the outcomes of _package on the file system f
RunPackage(cfg, f) ==
    IF TelemetryLogs(f) = {} THEN {Raised("StopIteration")}
    ELSE UNION {IF ~CanNormalize(f[log].rows) THEN {Raised("ValueError")}
                ELSE UNION {PackageLoop(cfg, f, f[log].rows, times) : times \in {FinalTime(f[log].rows)}}
                : log \in TelemetryLogs(f)}

(***************************************************************************)
(* The pipeline as a state machine.                                        *)
(***************************************************************************)
\* proc: whether _process has been called, the exception that left the last call,
\* the files it found, the renames it logged and the thumbnails it made
NoProcess == [called |-> FALSE, exc |-> "none", before |-> <<>>, renamed |-> {}, thumbs |-> {}]

Range(seq) == {seq[i] : i \in 1..Len(seq)}

ImportSuffixes == {".csv", ".jpg", ".mp4"}

\* the source trees _import is given: at most MaxFiles files, no two with the same name
RECURSIVE TreesFrom(_, _)
TreesFrom(files, k) ==
    IF k = 0 THEN {{}}
    ELSE LET smaller == TreesFrom(files, k - 1)
         IN smaller \cup UNION {{t \cup {a} : a \in {b \in files : \A c \in t : c.name # b.name}}
                                   : t \in smaller}

TreesOf(k) == TreesFrom(SourceFiles, k)

\* the data directory after the files of the source tree src have been copied into it
Imported(src) ==
    LET copied == {a \in src : Lower(PathSuffix(a.name)) \in ImportSuffixes}
    IN [p \in {a.name : a \in copied} |-> BodyOf(CHOOSE a \in copied : a.name = p)]

\* a pipeline is constructed on an empty data directory; a dry-run pipeline may also be
\* constructed on a data directory an earlier import has filled (one of `filled`)
InitWith(cfgs, filled) ==
    /\ dry_run \in BOOLEAN
    /\ fs \in IF dry_run THEN filled \cup {<<>>} ELSE {<<>>}
    /\ dirs = {}
    /\ pc = "new"
    /\ config \in cfgs
    /\ has_logging \in BOOLEAN
    /\ proc = NoProcess
    /\ pkg = NotRun

Init == InitWith({StdConfig}, {})

\* a dry run may find the files of an earlier import
InitDry == InitWith({StdConfig}, {Imported(src) : src \in TreesOf(MaxDryFiles)})

InitIds == InitWith(Configs, {})

\* _import: copy every .csv, .jpg and .mp4 file of the source tree into the data directory
ImportFrom(trees) ==
    /\ pc = "new"
    /\ IF dry_run THEN fs' = fs ELSE \E src \in trees : fs' = Imported(src)
    /\ pc' = "ready"
    /\ UNCHANGED <<dirs, config, has_logging, dry_run, proc, pkg>>

Import == ImportFrom(TreesOf(MaxFiles))

ImportIds == ImportFrom(TreesOf(MaxIdFiles))

\* _process: one whole call, for any order in which the directory is listed
Process ==
    /\ pc = "ready"
    /\ \E targets \in {RouteTargets(config, has_logging, fs)}, listing \in Perms(RootFiles(fs)) :
        \E st \in {RunProcess(has_logging, fs, targets, listing)} :
           /\ fs' = st.fs
           /\ proc' = [called |-> TRUE, exc |-> st.exc, before |-> fs, renamed |-> st.renamed,
                       thumbs |-> Range(st.thumb_list)]
    /\ dirs' = dirs \cup ProcessDirs
    /\ UNCHANGED <<pc, config, has_logging, dry_run, pkg>>

\* _package: one whole call
Package ==
    /\ pc = "ready"
    /\ pkg' \in RunPackage(config, fs)
    /\ pc' = "packaged"
    /\ UNCHANGED <<fs, dirs, config, has_logging, dry_run, proc>>

Next == Import \/ Process \/ Package

Spec == Init /\ [][Next]_vars

NextIds == ImportIds \/ Process \/ Package

SpecIds == InitIds /\ [][NextIds]_vars

\* the pipeline where a dry run is made on a filled data directory
SpecDry == InitDry /\ [][Next]_vars

\* the pipeline on source trees that may hold a still with truncated image data
ImportThumbs == ImportFrom(TreesFrom(SourceFiles \cup TruncatedStills, MaxFiles))

NextThumbs == ImportThumbs \/ Process \/ Package

SpecThumbs == Init /\ [][NextThumbs]_vars

\* the pipeline on source trees whose file names vary
ImportNames == ImportFrom(TreesFrom(NamingFiles, MaxNameFiles))

NextNames == ImportNames \/ Process \/ Package

SpecNames == InitIds /\ [][NextNames]_vars

(***************************************************************************)
(* Vocabulary of the properties.                                           *)
(***************************************************************************)
Packaged == pc = "packaged"

HasSuffix(p, suffix) == Lower(NameSuffix(PathName(p))) = suffix

\* the files the router put under images/ and video/
RoutedStills(f) == {p \in DOMAIN f : SubSeq(p, 1, 7) = "images/"}
RoutedVideos(f) == {p \in DOMAIN f : SubSeq(p, 1, 6) = "video/"}

\* a still whose content carries a capture time: readable, with a well-formed EXIF DateTime
HasExifTime(info) == info \notin {Unreadable, NoExif, NoTag} /\ CanParse(info, ExifLayout)

\* the capture time in the content of a still
ExifTime(info) == FieldsOf(info, ExifLayout)

\* the telemetry table _package reads, when a routed log exists
Telemetry(f) == f[CHOOSE log \in TelemetryLogs(f) : TRUE].rows

\* rows of the table whose floored timestamp is t
RowsAt(rows, t) == {i \in 1..Len(rows) : ParseFracFloor(rows[i].FinalTime, CsvLayout, "") = t}

(***************************************************************************)
(* C1: every file under the data directory has a record in the mapping     *)
(* that _package returns, also a still that matches no telemetry row.      *)
(* The code stores no record for such a still: this statement is violated. *)
(***************************************************************************)
C1_EveryFileHasRecord ==
    (Packaged /\ pkg.status = "returned") => DOMAIN pkg.mapping = DOMAIN fs

(***************************************************************************)
(* C2: within one _process call no two source files are renamed to the     *)
(* same destination path.  The code gives equal names to stills of the     *)
(* same second and index, to stills without a capture time, to videos of   *)
(* the same second and to all logs: this statement is violated.            *)
(***************************************************************************)
C2_UniqueDestinations ==
    \A a, b \in proc.renamed : a.dst = b.dst => a.src = b.src

\* the files _process finds directly in the data directory, by kind
RootOfKind(f, suffix) == {p \in RootFiles(f) : HasSuffix(p, suffix)}

\* the file name ends in "_<digits>.<suffix>"
HasIndexToken(name) == IsInt(FromEnd(Split(NameStem(name), "_"), 1))

\* a still for which timestamp extraction or name construction fails
BadStill(f, p) == ~HasExifTime(f[p].info) \/ ~HasIndexToken(p)

\* the stills _process found whose extraction fails, and the other files it has a rule for
BadStills(f) == {p \in RootOfKind(f, ".jpg") : BadStill(f, p)}
GoodFiles(f) == (RootOfKind(f, ".jpg") \cup RootOfKind(f, ".mp4") \cup RootOfKind(f, ".csv")) \ BadStills(f)

RenamedSources == {r.src : r \in proc.renamed}

(***************************************************************************)
(* C3: a still whose timestamp extraction or name construction fails is    *)
(* skipped by _process (it stays at its path and is not renamed), no       *)
(* exception leaves the call and every other file of a known kind is       *)
(* routed.  The code renames such a still to default_filename.JPG or lets  *)
(* ValueError end the call: this statement is violated.                    *)
(***************************************************************************)
C3_BadFileSkipped ==
    (proc.called /\ BadStills(proc.before) # {}) =>
        /\ proc.exc = "none"
        /\ \A p \in BadStills(proc.before) : p \in DOMAIN fs /\ p \notin RenamedSources
        /\ GoodFiles(proc.before) \subseteq RenamedSources

(***************************************************************************)
(* C4: _package always returns a mapping; no exception leaves it.          *)
(* The code raises when no log is routed, when the FinalTime column or a   *)
(* media name cannot be parsed and for a video with an empty table: this   *)
(* statement is violated.                                                  *)
(***************************************************************************)
C4_PackageReturns ==
    Packaged => pkg.status = "returned"

\* the timestamp encoded in the standardized name of a routed still
NameTime(p) == FieldsOf(Split(NameStem(PathName(p)), "_")[StampPosition(".jpg")], CompactLayout)

\* the telemetry row the returned mapping attaches to path p, 0 if none
AttachedRow(p) == IF p \in DOMAIN pkg.mapping THEN pkg.mapping[p].row ELSE 0

(***************************************************************************)
(* C5: when _package returns, a routed still is attached to a telemetry    *)
(* row exactly if some row's timestamp floored to the second equals the    *)
(* timestamp in the still's name, and the attached row is then the first   *)
(* such row in table order, with that row's values as metadata.            *)
(***************************************************************************)
C5_StillExactOrNone ==
    (Packaged /\ pkg.status = "returned") =>
        \A p \in RoutedStills(fs) :
            LET rows == Telemetry(fs)
                hits == RowsAt(rows, NameTime(p))
            IN IF hits = {} THEN AttachedRow(p) = 0
               ELSE /\ AttachedRow(p) = Least(hits)
                    /\ pkg.mapping[p].ancillary[1].Camera = rows[Least(hits)].Camera

\* a still attached although two rows of the table carry its second
C5_Witness ==
    /\ Packaged /\ pkg.status = "returned"
    /\ \E p \in RoutedStills(fs) :
          /\ AttachedRow(p) # 0
          /\ Cardinality(RowsAt(Telemetry(fs), NameTime(p))) >= 2

\* the timestamp token in the standardized name of a routed video, "" if the name is too short
VideoStamp(p) ==
    LET parts == Split(NameStem(PathName(p)), "_")
    IN IF Len(parts) < StampPosition(".mp4") THEN "" ELSE parts[StampPosition(".mp4")]

\* |row i - t| in seconds
RowDistance(rows, i, t) ==
    Abs(EpochSeconds(ParseFracFloor(rows[i].FinalTime, CsvLayout, "")) - EpochSeconds(t))

\* a routed log whose table has rows, all with a well-formed FinalTime
HasUsableTable(f) == TelemetryLogs(f) # {} /\ Telemetry(f) # <<>> /\ CanNormalize(Telemetry(f))

(***************************************************************************)
(* C6: with a non-empty telemetry table every routed video is attached to  *)
(* a row, that row is at minimal distance from the timestamp in the        *)
(* video's name, and no earlier row is as near.  A video routed under the  *)
(* sentinel name (C7) makes _package raise and no video is attached: this  *)
(* statement is violated.                                                  *)
(***************************************************************************)
C6_VideoNearest ==
    (Packaged /\ HasUsableTable(fs)) =>
        \A v \in RoutedVideos(fs) :
            LET rows == Telemetry(fs)
                i == AttachedRow(v)
                t == FieldsOf(VideoStamp(v), CompactLayout)
            IN /\ i # 0
               /\ \A j \in 1..Len(rows) : RowDistance(rows, i, t) <= RowDistance(rows, j, t)
               /\ \A j \in 1..(i - 1) : RowDistance(rows, j, t) > RowDistance(rows, i, t)

\* a video whose container yields no creation time
VideoFails(info) == info = ProbeError \/ info = "" \/ ~CanParseFrac(info, IsoLayout, "Z")

FailedVideos(f) == {p \in RootOfKind(f, ".mp4") : VideoFails(f[p].info)}

(***************************************************************************)
(* C7: when creation-time extraction fails for a video, no exception       *)
(* leaves _process and the video is routed under a name whose timestamp    *)
(* token is a valid canonical timestamp.  The code writes the token        *)
(* 00000000T000000Z, which names no date: this statement is violated.      *)
(***************************************************************************)
C7_SentinelValid ==
    proc.called =>
        \A v \in FailedVideos(proc.before) :
            /\ proc.exc = "none"
            /\ \E r \in proc.renamed : r.src = v /\ CanParse(VideoStamp(r.dst), CompactLayout)

\* the stills _process renamed whose content carries a capture time
NamedStills == {r \in proc.renamed : HasSuffix(r.src, ".jpg") /\ HasExifTime(proc.before[r.src].info)}

(***************************************************************************)
(* C8: for every still with a valid EXIF DateTime that _process renamed,   *)
(* the token _package reads from the new name (part 6 of the stem) is a    *)
(* timestamp and equals the EXIF capture time, whatever the configured     *)
(* identifiers.  A platform id that contains "_" moves the token: this     *)
(* statement is violated.                                                  *)
(***************************************************************************)
C8_RoundTrip ==
    \A r \in NamedStills :
        LET parts == Split(NameStem(PathName(r.dst)), "_")
        IN /\ Len(parts) >= StampPosition(".jpg")
           /\ CanParse(parts[StampPosition(".jpg")], CompactLayout)
           /\ FieldsOf(parts[StampPosition(".jpg")], CompactLayout) = ExifTime(proc.before[r.src].info)

\* the voyage id has two "_"-separated components and the deployment id three
WellFormedIds(cfg) == Len(Split(cfg.voyage_id, "_")) = 2 /\ Len(Split(cfg.deployment, "_")) = 3

(***************************************************************************)
(* C9: with a voyage or deployment id of the wrong number of components    *)
(* _process names no still: it ends with an error instead.  The code       *)
(* accepts an id with too many components and uses the leading ones: this  *)
(* statement is violated.                                                  *)
(***************************************************************************)
C9_MalformedIdSurfaced ==
    (proc.called /\ ~WellFormedIds(config) /\ RootOfKind(proc.before, ".jpg") # {}) =>
        /\ proc.exc # "none"
        /\ NamedStills = {}

HasMarker(p) == Contains(PathName(p), "_THUMB") \/ Contains(PathName(p), "overview")

(***************************************************************************)
(* C10: _process renames no file whose name contains the thumbnail or the  *)
(* overview marker, and every such file it found is still at its path.     *)
(* The demo router has no such guard and renames a marked still that       *)
(* carries a capture time and an index: this statement is violated.        *)
(***************************************************************************)
C10_DerivedExcluded ==
    proc.called =>
        /\ \A r \in proc.renamed : ~HasMarker(r.src)
        /\ \A p \in DOMAIN proc.before : HasMarker(p) => p \in DOMAIN fs

\* the routed stills of which no thumbnail can be made, and the other routed stills
FailingStills(f) == {p \in RoutedStills(f) : ~CanResize(f[p])}
SoundStills(f) == RoutedStills(f) \ FailingStills(f)

(***************************************************************************)
(* C11: when the thumbnail of a routed still cannot be made, _process      *)
(* ends without exception, every other routed still has its thumbnail,     *)
(* the failing still is at its routed path, and _package then returns a    *)
(* mapping that contains it.  The handler of the failure calls             *)
(* self.logging, and an unreadable still carries the default name that     *)
(* _package cannot parse: this statement is violated.                      *)
(***************************************************************************)
C11_ThumbnailFailureContained ==
    (proc.called /\ FailingStills(fs) # {}) =>
        /\ proc.exc = "none"
        /\ \A p \in SoundStills(fs) : ThumbPath(PathName(p)) \in DOMAIN fs
        /\ Packaged => /\ pkg.status = "returned"
                       /\ FailingStills(fs) \subseteq DOMAIN pkg.mapping

(***************************************************************************)
(* C12: the ancillary data of a matched media file is the matched row as   *)
(* it stands in the log, every column with its original value.  The code   *)
(* replaces the FinalTime column by its floored value before matching and  *)
(* writes it in ISO format: this statement is violated.                    *)
(***************************************************************************)
C12_AncillaryVerbatim ==
    (Packaged /\ pkg.status = "returned") =>
        \A p \in DOMAIN pkg.mapping :
            pkg.mapping[p].row # 0 =>
                pkg.mapping[p].ancillary = <<Telemetry(fs)[pkg.mapping[p].row]>>

(***************************************************************************)
(* C13: a pipeline constructed with dry_run = True changes neither the     *)
(* files nor the directories of the data directory, whatever operation     *)
(* runs.  Only _import tests the flag; _process makes its directories and  *)
(* renames the files it finds: this statement is violated.                 *)
(***************************************************************************)
C13_DryRunFrame ==
    [][dry_run => (fs' = fs /\ dirs' = dirs)]_vars

\* a file system without its telemetry logs, routed or not
LogFree(f) == [p \in {q \in DOMAIN f : ~HasSuffix(q, ".csv")} |-> f[p]]

\* the outcomes of _process on the file system f, one for each order of the listing
ProcessOutcomes(f) ==
    {RunProcess(has_logging, f, targets, listing) :
        targets \in {RouteTargets(config, has_logging, f)}, listing \in Perms(RootFiles(f))}

(***************************************************************************)
(* C14: what _process does to the media files does not depend on the       *)
(* telemetry log: its exception, the files other than logs it leaves and   *)
(* the thumbnails it makes are those of a call on the same directory       *)
(* without any log (stated for the calls that find a log).                 *)
(***************************************************************************)
C14_RoutingIgnoresTelemetry ==
    (proc.called /\ pc = "ready" /\ LogFree(proc.before) # proc.before) =>
        \E st \in ProcessOutcomes(LogFree(proc.before)) :
            /\ st.exc = proc.exc
            /\ st.fs = LogFree(fs)
            /\ Range(st.thumb_list) = proc.thumbs

\* stills were routed, thumbnailed and tiled although the log of the directory cannot be parsed
C14_Witness ==
    /\ proc.called /\ pc = "ready" /\ proc.exc = "none"
    /\ \E log \in RootOfKind(proc.before, ".csv") : ~CanNormalize(proc.before[log].rows)
    /\ RoutedStills(fs) # {} /\ proc.thumbs # {} /\ "overview.jpg" \in DOMAIN fs

\* the trailing "_"-separated token of the stem of a file name
IndexToken(name) == FromEnd(Split(NameStem(name), "_"), 1)

\* YYYY:mm:dd HH:MM:SS written as YYYYmmddTHHMMSSZ
CompactOf(info) ==
    SubSeq(info, 1, 4) \o SubSeq(info, 6, 7) \o SubSeq(info, 9, 10) \o "T"
        \o SubSeq(info, 12, 13) \o SubSeq(info, 15, 16) \o SubSeq(info, 18, 19) \o "Z"

\* the part of a standardized still name before the index
NamePrefix(cfg, info) ==
    Join(<<cfg.platform_id, "SCP", Split(cfg.voyage_id, "_")[1], Split(cfg.voyage_id, "_")[2],
           Split(cfg.deployment, "_")[3], CompactOf(info)>>, "_") \o "_"

\* name is NamePrefix, an index and ".JPG": the index, "" if the name has another form
IndexIn(name, prefix) ==
    IF /\ Len(name) > Len(prefix) + 4
       /\ SubSeq(name, 1, Len(prefix)) = prefix
       /\ SubSeq(name, Len(name) - 3, Len(name)) = ".JPG"
    THEN SubSeq(name, Len(prefix) + 1, Len(name) - 4)
    ELSE ""

\* the index part of the name _process gave to the still of the rename r
NamedIndex(r) == IndexIn(PathName(r.dst), NamePrefix(config, proc.before[r.src].info))

\* ix is the decimal number of the token tok
SameNumber(ix, tok) == IsInt(ix) /\ ToInt(ix) = ToInt(tok)

(***************************************************************************)
(* C15 as stated: the name of a still with a valid EXIF DateTime is        *)
(* platform id, SCP, voyage prefix, voyage suffix, third component of the  *)
(* deployment id, compact timestamp and the number of the trailing token   *)
(* of the old name in exactly 4 digits, joined by "_", then ".JPG".  A     *)
(* token above 9999 is written with all its digits: this statement is      *)
(* violated.                                                               *)
(***************************************************************************)
C15_NameExactlyFourDigits ==
    \A r \in NamedStills :
        /\ SameNumber(NamedIndex(r), IndexToken(r.src))
        /\ Len(NamedIndex(r)) = 4

(***************************************************************************)
(* C15 amended: as above, with the index zero-padded to at least 4         *)
(* digits: a number of up to 4 digits is written in 4 digits, a larger one *)
(* with its own digits and no leading zero.                                *)
(***************************************************************************)
C15_NameAtLeastFourDigits ==
    \A r \in NamedStills :
        /\ SameNumber(NamedIndex(r), IndexToken(r.src))
        /\ Len(NamedIndex(r)) >= 4
        /\ Len(NamedIndex(r)) > 4 => Char(NamedIndex(r), 1) # "0"

\* a still was named whose index token has fewer than 4 digits
C15_Witness ==
    \E r \in NamedStills : Len(IndexToken(r.src)) < 4 /\ Len(NamedIndex(r)) = 4

\* the characters of file names in ASCII order
AsciiOrder == "-./0123456789:<>ABCDEFGHIJKLMNOPQRSTUVWXYZ_abcdefghijklmnopqrstuvwxyz"

Ord(c) == CHOOSE i \in 1..Len(AsciiOrder) : Char(AsciiOrder, i) = c

RECURSIVE LessFrom(_, _, _)
LessFrom(a, b, i) ==
    IF i > Len(a) THEN i <= Len(b)
    ELSE IF i > Len(b) THEN FALSE
    ELSE IF Char(a, i) = Char(b, i) THEN LessFrom(a, b, i + 1)
    ELSE Ord(Char(a, i)) < Ord(Char(b, i))

\* a sorts before b as a string
StrLess(a, b) == LessFrom(a, b, 1)

\* the rename r is that of a still, or of a video, named from its capture time
IsNamedStill(r) == SubSeq(r.dst, 1, 7) = "images/" /\ HasExifTime(proc.before[r.src].info)
IsNamedVideo(r) == SubSeq(r.dst, 1, 6) = "video/" /\ ~VideoFails(proc.before[r.src].info)

\* the capture time, in seconds, of the source of a rename
StillSeconds(r) == EpochSeconds(ExifTime(proc.before[r.src].info))
VideoSeconds(r) == EpochSeconds(ParseFracFloor(proc.before[r.src].info, IsoLayout, "Z"))

(***************************************************************************)
(* C16: of two stills, or two videos, that one _process call named from    *)
(* their capture times, the one with the earlier time has the name that    *)
(* sorts first.                                                            *)
(***************************************************************************)
C16_NameOrderIsTimeOrder ==
    \A a, b \in proc.renamed :
        /\ (a.src # b.src /\ IsNamedStill(a) /\ IsNamedStill(b) /\ StillSeconds(a) < StillSeconds(b))
              => StrLess(PathName(a.dst), PathName(b.dst))
        /\ (a.src # b.src /\ IsNamedVideo(a) /\ IsNamedVideo(b) /\ VideoSeconds(a) < VideoSeconds(b))
              => StrLess(PathName(a.dst), PathName(b.dst))

\* two stills were named of which the earlier one has the larger index
C16_Witness ==
    \E a, b \in proc.renamed :
        /\ IsNamedStill(a) /\ IsNamedStill(b)
        /\ StillSeconds(a) < StillSeconds(b)
        /\ ToInt(IndexToken(a.src)) > ToInt(IndexToken(b.src))

(***************************************************************************)
(* C17: a _process call that finds no still ends without exception, makes  *)
(* no thumbnail and no overview.jpg; and when a call makes the overview,   *)
(* every still it routed that can be decoded has its thumbnail.  A video   *)
(* without creation time makes the call end in self.logging (C7): this     *)
(* statement is violated.                                                  *)
(***************************************************************************)
C17_NoStillsNoMosaic ==
    proc.called =>
        /\ RootOfKind(proc.before, ".jpg") = {} =>
              /\ proc.exc = "none"
              /\ proc.thumbs = {}
              /\ "overview.jpg" \notin DOMAIN fs
        /\ (proc.exc = "none" /\ proc.thumbs # {}) =>
              \A p \in SoundStills(fs) :
                  p \in {r.dst : r \in proc.renamed} => ThumbPath(PathName(p)) \in proc.thumbs

====
